---- MODULE Spec2Model ----
(***************************************************************************)
(* Model of the in-memory task store of RestAPI (package todo): the map    *)
(* l.tasks guarded by the sync.RWMutex l.mtx, the Task value type with its *)
(* CompletedAt pointer, and the goroutines (one per request) that call the *)
(* store.  Go reference semantics are kept: a map value is a reference to  *)
(* a map object, and *time.Time is an address in the heap `times`.         *)
(***************************************************************************)
EXTENDS Integers, Sequences, FiniteSets, TLC

\* ---- bounds ----
\* goroutines in the Add race (SpecAdd); readings of time.Now() in one run
NumWorkers == 3
MaxClock == 3

Workers == 1..NumWorkers
\* the request goroutines that run the full method set (Spec)
Clients == {1, 2}
Titles == {"a", "b"}
Descriptions == {"x", "y"}

\* ---- values ----
Nil == 0
ZeroTime == 0
ErrNil == "nil"
ErrTaskAlreadyExists == "ErrTaskAlreadyExists"
ErrTaskNotFound == "ErrTaskNotFound"
NoErr == "-"

NoRef == "none"
TmpRef == "tmp"
StoreRef == "l.tasks"

WriteOps == {"AddTask", "CompleteTask", "UncompleteTask", "DeleteTask"}
ReadOps == {"GetTask", "ListTasks", "ListUncompletedTasks"}

ZeroTask ==
  [Title |-> "", Description |-> "", Completed |-> FALSE,
   CreatedAt |-> ZeroTime, CompletedAt |-> Nil]

EmptyMap == [t \in {} |-> ZeroTask]

NoCall == [op |-> "-", title |-> "", task |-> ZeroTask]
NoRet == [task |-> ZeroTask, err |-> NoErr, m |-> NoRef]

\* an HTTP request body: a JSON object with the members it carries, or text
\* that is not JSON
Absent == "<absent>"
NoBody == [ok |-> TRUE, title |-> Absent, description |-> Absent, complete |-> Absent]
Malformed == [ok |-> FALSE, title |-> Absent, description |-> Absent, complete |-> Absent]

NoReq ==
  [method |-> "-", path |-> "-", title |-> "", query |-> "", body |-> NoBody,
   handler |-> "-"]
NoResp ==
  [status |-> 0, body |-> "-", task |-> ZeroTask, m |-> EmptyMap, message |-> ""]

VARIABLES tasks, times, clock, mtx, pc, call, loc, ret, tmp, req, resp

\* the request a goroutine serves and the response it has written
http == <<req, resp>>

vars == <<tasks, times, clock, mtx, pc, call, loc, ret, tmp, req, resp>>

\* ---- Task ----
\* the arguments taken in the wrong order
NewTaskSwapped(title, description, now) ==
  [Title |-> description, Description |-> title, Completed |-> FALSE,
   CreatedAt |-> now, CompletedAt |-> Nil]

NewTask(title, description, now) ==
  [Title |-> title, Description |-> description, Completed |-> FALSE,
   CreatedAt |-> now, CompletedAt |-> Nil]

\* a task built anew from the title, the description lost
CompleteAsNew(t, p) ==
  [NewTask(t.Title, "", t.CreatedAt) EXCEPT !.Completed = TRUE, !.CompletedAt = p]

\* t.Complete(): completeTime is a fresh heap cell at address p
Complete(t, p) == [t EXCEPT !.Completed = TRUE, !.CompletedAt = p]

\* Completed cleared, the timestamp left behind
UncompleteKeepTime(t) == [t EXCEPT !.Completed = FALSE]

Uncomplete(t) == [t EXCEPT !.Completed = FALSE, !.CompletedAt = Nil]

\* ---- map helpers ----
MapPut(m, k, v) == (k :> v) @@ m

MapDelete(m, k) == [t \in DOMAIN m \ {k} |-> m[t]]

\* ---- read bodies ----
GetTaskBody(m, title) ==
  IF title \notin DOMAIN m
    THEN [task |-> ZeroTask, err |-> ErrTaskNotFound]
    ELSE [task |-> m[title], err |-> ErrNil]

RECURSIVE CopyLoop(_, _, _)
CopyLoop(m, keys, acc) ==
  IF keys = {} THEN acc
  ELSE LET k == CHOOSE x \in keys : TRUE
       IN CopyLoop(m, keys \ {k}, MapPut(acc, k, m[k]))

RECURSIVE FilterLoop(_, _, _)
FilterLoop(m, keys, acc) ==
  IF keys = {} THEN acc
  ELSE LET k == CHOOSE x \in keys : TRUE
       IN FilterLoop(m, keys \ {k},
                     IF ~m[k].Completed THEN MapPut(acc, k, m[k]) ELSE acc)

\* return l.tasks: the store's own map handed out
ListTasksLive(m) == [m |-> StoreRef, val |-> EmptyMap]

\* the returned map value is a reference to the freshly made map
ListTasksBody(m) == [m |-> TmpRef, val |-> CopyLoop(m, DOMAIN m, EmptyMap)]

\* the filter left out
ListUncompletedUnfiltered(m) ==
  [m |-> TmpRef, val |-> CopyLoop(m, DOMAIN m, EmptyMap)]

ListUncompletedTasksBody(m) ==
  [m |-> TmpRef, val |-> FilterLoop(m, DOMAIN m, EmptyMap)]

\* ---- state ----
Init ==
  /\ tasks = EmptyMap
  /\ times = <<>>
  /\ clock = 1
  /\ mtx = [writer |-> FALSE, readers |-> 0]
  /\ pc = [w \in Workers |-> "idle"]
  /\ call = [w \in Workers |-> NoCall]
  /\ loc = [w \in Workers |-> ZeroTask]
  /\ ret = [w \in Workers |-> NoRet]
  /\ tmp = [w \in Workers |-> EmptyMap]
  /\ req = [w \in Workers |-> NoReq]
  /\ resp = [w \in Workers |-> NoResp]

\* ---- a goroutine calls a store method ----
\* time.Now() is a strictly increasing clock: a reading returns `clock` and
\* advances it.  A call that will read the clock is admitted only while a
\* reading is left for it and for every CompleteTask already under way.
PendingCompletes ==
  Cardinality({v \in Workers : /\ call[v].op = "CompleteTask"
                               /\ pc[v] \in {"lock", "cs", "write"}})

Invoke(w, c) ==
  /\ pc[w] = "idle"
  /\ call' = [call EXCEPT ![w] = c]
  /\ pc' = [pc EXCEPT ![w] = "lock"]
  /\ UNCHANGED <<tasks, times, mtx, loc, ret, tmp>>

\* todo.NewTask(title, description) followed by l.AddTask(todoTask)
CallAddTask(w) ==
  /\ clock + PendingCompletes <= MaxClock
  /\ clock' = clock + 1
  /\ \E title \in Titles, description \in Descriptions :
       Invoke(w, [op |-> "AddTask", title |-> title,
                  task |-> NewTask(title, description, clock)])
  /\ UNCHANGED http

CallGetTask(w) ==
  /\ clock' = clock
  /\ \E title \in Titles :
       Invoke(w, [op |-> "GetTask", title |-> title, task |-> ZeroTask])
  /\ UNCHANGED http

CallListTasks(w) ==
  /\ clock' = clock
  /\ Invoke(w, [op |-> "ListTasks", title |-> "", task |-> ZeroTask])
  /\ UNCHANGED http

CallListUncompletedTasks(w) ==
  /\ clock' = clock
  /\ Invoke(w, [op |-> "ListUncompletedTasks", title |-> "", task |-> ZeroTask])
  /\ UNCHANGED http

CallCompleteTask(w) ==
  /\ clock + PendingCompletes <= MaxClock
  /\ clock' = clock
  /\ \E title \in Titles :
       Invoke(w, [op |-> "CompleteTask", title |-> title, task |-> ZeroTask])
  /\ UNCHANGED http

CallUncompleteTask(w) ==
  /\ clock' = clock
  /\ \E title \in Titles :
       Invoke(w, [op |-> "UncompleteTask", title |-> title, task |-> ZeroTask])
  /\ UNCHANGED http

CallDeleteTask(w) ==
  /\ clock' = clock
  /\ \E title \in Titles :
       Invoke(w, [op |-> "DeleteTask", title |-> title, task |-> ZeroTask])
  /\ UNCHANGED http

\* ---- sync.RWMutex ----
\* a lock that does not wait for the writer holding it
LockNoWait(w) ==
  /\ pc[w] = "lock"
  /\ call[w].op \in WriteOps
  /\ mtx' = [mtx EXCEPT !.writer = TRUE]
  /\ pc' = [pc EXCEPT ![w] = "cs"]
  /\ UNCHANGED <<tasks, times, clock, call, loc, ret, tmp>>
  /\ UNCHANGED http

\* a write lock that does not wait for the readers inside
LockIgnoresReaders(w) ==
  /\ pc[w] = "lock"
  /\ call[w].op \in WriteOps
  /\ ~mtx.writer
  /\ mtx' = [mtx EXCEPT !.writer = TRUE]
  /\ pc' = [pc EXCEPT ![w] = "cs"]
  /\ UNCHANGED <<tasks, times, clock, call, loc, ret, tmp>>
  /\ UNCHANGED http

Lock(w) ==
  /\ pc[w] = "lock"
  /\ call[w].op \in WriteOps
  /\ ~mtx.writer
  /\ mtx.readers = 0
  /\ mtx' = [mtx EXCEPT !.writer = TRUE]
  /\ pc' = [pc EXCEPT ![w] = "cs"]
  /\ UNCHANGED <<tasks, times, clock, call, loc, ret, tmp>>
  /\ UNCHANGED http

\* a read lock that does not wait for the writer inside
RLockNoWait(w) ==
  /\ pc[w] = "lock"
  /\ call[w].op \in ReadOps
  /\ mtx' = [mtx EXCEPT !.readers = @ + 1]
  /\ pc' = [pc EXCEPT ![w] = "cs"]
  /\ UNCHANGED <<tasks, times, clock, call, loc, ret, tmp>>
  /\ UNCHANGED http

RLock(w) ==
  /\ pc[w] = "lock"
  /\ call[w].op \in ReadOps
  /\ ~mtx.writer
  /\ mtx' = [mtx EXCEPT !.readers = @ + 1]
  /\ pc' = [pc EXCEPT ![w] = "cs"]
  /\ UNCHANGED <<tasks, times, clock, call, loc, ret, tmp>>
  /\ UNCHANGED http

\* a return path that leaves without the deferred Unlock
ReturnLocked(w) ==
  /\ pc[w] = "unlock"
  /\ call[w].op \in WriteOps
  /\ mtx' = IF ret[w].err = ErrNil THEN [mtx EXCEPT !.writer = FALSE] ELSE mtx
  /\ pc' = [pc EXCEPT ![w] = "done"]
  /\ UNCHANGED <<tasks, times, clock, call, loc, ret, tmp>>
  /\ UNCHANGED http

\* deferred l.mtx.Unlock() runs as the method returns
Unlock(w) ==
  /\ pc[w] = "unlock"
  /\ call[w].op \in WriteOps
  /\ mtx' = [mtx EXCEPT !.writer = FALSE]
  /\ pc' = [pc EXCEPT ![w] = "done"]
  /\ UNCHANGED <<tasks, times, clock, call, loc, ret, tmp>>
  /\ UNCHANGED http

RUnlock(w) ==
  /\ pc[w] = "unlock"
  /\ call[w].op \in ReadOps
  /\ mtx' = [mtx EXCEPT !.readers = @ - 1]
  /\ pc' = [pc EXCEPT ![w] = "done"]
  /\ UNCHANGED <<tasks, times, clock, call, loc, ret, tmp>>
  /\ UNCHANGED http

\* ---- List methods, inside the critical section ----
Fail(w, e) ==
  /\ ret' = [ret EXCEPT ![w] = [task |-> ZeroTask, err |-> e, m |-> NoRef]]
  /\ pc' = [pc EXCEPT ![w] = "unlock"]

Succeed(w) == Fail(w, ErrNil)

\* the existence check left out: the task is stored over the old one
AddTaskNoCheck(w) ==
  /\ pc[w] = "cs"
  /\ call[w].op = "AddTask"
  /\ pc' = [pc EXCEPT ![w] = "write"]
  /\ UNCHANGED <<tasks, times, clock, mtx, call, loc, ret, tmp>>
  /\ UNCHANGED http

\* the check made on the map being non-empty instead of on the title
AddTaskCheckAny(w) ==
  /\ pc[w] = "cs"
  /\ call[w].op = "AddTask"
  /\ IF tasks # EmptyMap
       THEN Fail(w, ErrTaskAlreadyExists)
       ELSE /\ pc' = [pc EXCEPT ![w] = "write"]
            /\ ret' = ret
  /\ UNCHANGED <<tasks, times, clock, mtx, call, loc, tmp>>
  /\ UNCHANGED http

\* if _, ok := l.tasks[task.Title]; ok { return ErrTaskAlreadyExists }
AddTaskCheck(w) ==
  /\ pc[w] = "cs"
  /\ call[w].op = "AddTask"
  /\ IF call[w].task.Title \in DOMAIN tasks
       THEN Fail(w, ErrTaskAlreadyExists)
       ELSE /\ pc' = [pc EXCEPT ![w] = "write"]
            /\ ret' = ret
  /\ UNCHANGED <<tasks, times, clock, mtx, call, loc, tmp>>
  /\ UNCHANGED http

\* l.tasks[task.Title] = task; return nil
AddTaskStore(w) ==
  /\ pc[w] = "write"
  /\ call[w].op = "AddTask"
  /\ tasks' = MapPut(tasks, call[w].task.Title, call[w].task)
  /\ Succeed(w)
  /\ UNCHANGED <<times, clock, mtx, call, loc, tmp>>
  /\ UNCHANGED http

GetTask(w) ==
  /\ pc[w] = "cs"
  /\ call[w].op = "GetTask"
  /\ LET r == GetTaskBody(tasks, call[w].title)
     IN ret' = [ret EXCEPT ![w] = [task |-> r.task, err |-> r.err, m |-> NoRef]]
  /\ pc' = [pc EXCEPT ![w] = "unlock"]
  /\ UNCHANGED <<tasks, times, clock, mtx, call, loc, tmp>>
  /\ UNCHANGED http

ListTasks(w) ==
  /\ pc[w] = "cs"
  /\ call[w].op = "ListTasks"
  /\ LET r == ListTasksBody(tasks)
     IN /\ tmp' = [tmp EXCEPT ![w] = r.val]
        /\ ret' = [ret EXCEPT ![w] = [task |-> ZeroTask, err |-> ErrNil, m |-> r.m]]
  /\ pc' = [pc EXCEPT ![w] = "unlock"]
  /\ UNCHANGED <<tasks, times, clock, mtx, call, loc>>
  /\ UNCHANGED http

ListUncompletedTasks(w) ==
  /\ pc[w] = "cs"
  /\ call[w].op = "ListUncompletedTasks"
  /\ LET r == ListUncompletedTasksBody(tasks)
     IN /\ tmp' = [tmp EXCEPT ![w] = r.val]
        /\ ret' = [ret EXCEPT ![w] = [task |-> ZeroTask, err |-> ErrNil, m |-> r.m]]
  /\ pc' = [pc EXCEPT ![w] = "unlock"]
  /\ UNCHANGED <<tasks, times, clock, mtx, call, loc>>
  /\ UNCHANGED http

\* the ok test left out: the zero Task read from the map is carried on
LookupOrCreate(w) ==
  /\ pc[w] = "cs"
  /\ loc' = [loc EXCEPT ![w] = IF call[w].title \in DOMAIN tasks
                                 THEN tasks[call[w].title] ELSE ZeroTask]
  /\ pc' = [pc EXCEPT ![w] = "write"]
  /\ UNCHANGED <<tasks, times, clock, mtx, call, ret, tmp>>
  /\ UNCHANGED http

\* task, ok := l.tasks[title]; if !ok { return ErrTaskNotFound }
Lookup(w) ==
  /\ pc[w] = "cs"
  /\ IF call[w].title \notin DOMAIN tasks
       THEN /\ Fail(w, ErrTaskNotFound)
            /\ loc' = loc
       ELSE /\ loc' = [loc EXCEPT ![w] = tasks[call[w].title]]
            /\ pc' = [pc EXCEPT ![w] = "write"]
            /\ ret' = ret
  /\ UNCHANGED <<tasks, times, clock, mtx, call, tmp>>
  /\ UNCHANGED http

CompleteTaskLookup(w) ==
  /\ call[w].op = "CompleteTask"
  /\ Lookup(w)

\* the write back l.tasks[title] = task left out: only the copy is completed
CompleteTaskNoWriteBack(w) ==
  /\ pc[w] = "write"
  /\ call[w].op = "CompleteTask"
  /\ times' = Append(times, clock)
  /\ loc' = [loc EXCEPT ![w] = ZeroTask]
  /\ Succeed(w)
  /\ clock' = clock + 1
  /\ UNCHANGED <<tasks, mtx, call, tmp>>
  /\ UNCHANGED http

\* a completed task left as it is: no new timestamp
CompleteTaskOnce(w) ==
  /\ pc[w] = "write"
  /\ call[w].op = "CompleteTask"
  /\ times' = IF loc[w].Completed THEN times ELSE Append(times, clock)
  /\ tasks' = IF loc[w].Completed THEN tasks
              ELSE MapPut(tasks, call[w].title, Complete(loc[w], Len(times) + 1))
  /\ loc' = [loc EXCEPT ![w] = ZeroTask]
  /\ Succeed(w)
  /\ clock' = clock + 1
  /\ UNCHANGED <<mtx, call, tmp>>
  /\ UNCHANGED http

\* task.Complete(); l.tasks[title] = task; return nil
CompleteTaskStore(w) ==
  /\ pc[w] = "write"
  /\ call[w].op = "CompleteTask"
  /\ times' = Append(times, clock)
  /\ tasks' = MapPut(tasks, call[w].title, Complete(loc[w], Len(times) + 1))
  /\ loc' = [loc EXCEPT ![w] = ZeroTask]
  /\ Succeed(w)
  /\ clock' = clock + 1
  /\ UNCHANGED <<mtx, call, tmp>>
  /\ UNCHANGED http

UncompleteTaskLookup(w) ==
  /\ call[w].op = "UncompleteTask"
  /\ Lookup(w)

\* task.Uncomplete(); l.tasks[title] = task; return nil
UncompleteTaskStore(w) ==
  /\ pc[w] = "write"
  /\ call[w].op = "UncompleteTask"
  /\ tasks' = MapPut(tasks, call[w].title, Uncomplete(loc[w]))
  /\ loc' = [loc EXCEPT ![w] = ZeroTask]
  /\ Succeed(w)
  /\ UNCHANGED <<times, clock, mtx, call, tmp>>
  /\ UNCHANGED http

DeleteTaskLookup(w) ==
  /\ call[w].op = "DeleteTask"
  /\ Lookup(w)

\* delete(l.tasks, title); return nil
DeleteTaskStore(w) ==
  /\ pc[w] = "write"
  /\ call[w].op = "DeleteTask"
  /\ tasks' = MapDelete(tasks, call[w].title)
  /\ loc' = [loc EXCEPT ![w] = ZeroTask]
  /\ Succeed(w)
  /\ UNCHANGED <<times, clock, mtx, call, tmp>>
  /\ UNCHANGED http

\* the caller is finished with the result; the goroutine ends
Return(w) ==
  /\ pc[w] = "done"
  /\ pc' = [pc EXCEPT ![w] = "idle"]
  /\ call' = [call EXCEPT ![w] = NoCall]
  /\ ret' = [ret EXCEPT ![w] = NoRet]
  /\ tmp' = [tmp EXCEPT ![w] = EmptyMap]
  /\ UNCHANGED <<tasks, times, clock, mtx, loc>>
  /\ UNCHANGED http

Next ==
  \/ \E w \in Clients :
       \/ CallAddTask(w)
       \/ CallGetTask(w)
       \/ CallListTasks(w)
       \/ CallListUncompletedTasks(w)
       \/ CallCompleteTask(w)
       \/ CallUncompleteTask(w)
       \/ CallDeleteTask(w)
       \/ Lock(w)
       \/ RLock(w)
       \/ Unlock(w)
       \/ RUnlock(w)
       \/ AddTaskCheck(w)
       \/ AddTaskStore(w)
       \/ GetTask(w)
       \/ ListTasks(w)
       \/ ListUncompletedTasks(w)
       \/ CompleteTaskLookup(w)
       \/ CompleteTaskStore(w)
       \/ UncompleteTaskLookup(w)
       \/ UncompleteTaskStore(w)
       \/ DeleteTaskLookup(w)
       \/ DeleteTaskStore(w)
       \/ Return(w)

Spec == Init /\ [][Next]_vars

\* ---- the Add race: every goroutine calls AddTask once ----
NextAdd ==
  \E w \in Workers :
    \/ CallAddTask(w)
    \/ Lock(w)
    \/ AddTaskCheck(w)
    \/ AddTaskStore(w)
    \/ Unlock(w)

SpecAdd == Init /\ [][NextAdd]_vars

\* ---- a caller that writes to what a read method handed back ----
\* the map the caller holds: the reference in ret[w].m, dereferenced
RetMap(w) ==
  IF ret[w].m = StoreRef THEN tasks
  ELSE IF ret[w].m = TmpRef THEN tmp[w]
  ELSE EmptyMap

Holds(w) == pc[w] = "done" /\ ret[w].err = ErrNil /\ call[w].op \in ReadOps

\* the *time.Time values reachable from the result
HeldPointers(w) ==
  {ret[w].task.CompletedAt} \cup {RetMap(w)[t].CompletedAt : t \in DOMAIN RetMap(w)}

\* *task.CompletedAt = time.Time{}
CallerWriteTime(w) ==
  /\ Holds(w)
  /\ \E p \in HeldPointers(w) \ {Nil} :
       /\ times[p] # ZeroTime
       /\ times' = [times EXCEPT ![p] = ZeroTime]
  /\ UNCHANGED <<tasks, clock, mtx, pc, call, loc, ret, tmp>>
  /\ UNCHANGED http

\* task.Completed = !task.Completed, on the Task value GetTask returned
CallerSetField(w) ==
  /\ Holds(w)
  /\ call[w].op = "GetTask"
  /\ ret' = [ret EXCEPT ![w].task.Completed = ~@]
  /\ UNCHANGED <<tasks, times, clock, mtx, pc, call, loc, tmp>>
  /\ UNCHANGED http

\* delete(m, title), on the map a list method returned
CallerWriteMap(w) ==
  /\ Holds(w)
  /\ \E t \in DOMAIN RetMap(w) :
       IF ret[w].m = StoreRef
         THEN tasks' = MapDelete(tasks, t) /\ tmp' = tmp
         ELSE tmp' = [tmp EXCEPT ![w] = MapDelete(@, t)] /\ tasks' = tasks
  /\ UNCHANGED <<times, clock, mtx, pc, call, loc, ret>>
  /\ UNCHANGED http

CallerMutates ==
  \E w \in Clients :
    \/ CallerWriteTime(w)
    \/ CallerSetField(w)
    \/ CallerWriteMap(w)

NextCaller ==
  \/ Next
  \/ CallerMutates

SpecCaller == Init /\ [][NextCaller]_vars

\* ---- what a client sees of a task: the pointer followed ----
ShowIn(heap, t) ==
  [Title |-> t.Title, Description |-> t.Description, Completed |-> t.Completed,
   CreatedAt |-> t.CreatedAt,
   CompletedAt |-> IF t.CompletedAt = Nil THEN -1 ELSE heap[t.CompletedAt]]

Show(t) == ShowIn(times, t)

ShowMap(m) == [t \in DOMAIN m |-> Show(m[t])]

\* ---- package http: router, DTOs and handlers ----
StatusOK == 200
StatusCreated == 201
StatusNoContent == 204
StatusBadRequest == 400
StatusNotFound == 404
StatusConflict == 409
StatusInternalServerError == 500

\* the routes in the order StartServer registers them; query is the pair a
\* route requires with Queries(), "" when it requires none
Routes ==
  << [path |-> "/tasks", method |-> "POST", query |-> "",
      handler |-> "HandleCreateTasks"],
     [path |-> "/tasks/{title}", method |-> "GET", query |-> "",
      handler |-> "HandleGetTask"],
     [path |-> "/tasks", method |-> "GET", query |-> "",
      handler |-> "HandleGetALLTasks"],
     [path |-> "/tasks", method |-> "GET", query |-> "completed=true",
      handler |-> "HandleGetAllUncompletedTasks"],
     [path |-> "/tasks/{title}", method |-> "PATCH", query |-> "",
      handler |-> "HandleCompleteTask"],
     [path |-> "/tasks/{title}", method |-> "DELETE", query |-> "",
      handler |-> "HandleDeleteTask"] >>

\* a route matches when each of its matchers does: path, method and, only
\* if the route has one, the query pair
Matches(route, r) ==
  /\ route.path = r.path
  /\ route.method = r.method
  /\ route.query # "" => r.query = route.query

\* mux tries the routes in registration order; the first that matches wins
RECURSIVE RouteFrom(_, _)
RouteFrom(i, r) ==
  IF i > Len(Routes) THEN "NotFound"
  ELSE IF Matches(Routes[i], r) THEN Routes[i].handler
  ELSE RouteFrom(i + 1, r)

Route(r) == RouteFrom(1, r)

\* json.NewDecoder(r.Body).Decode(&taskDTO): a member that is not in the
\* object leaves the field at its zero value
DecodeTaskDTO(body) ==
  [err |-> ~body.ok,
   dto |-> [Title |-> IF body.title = Absent THEN "" ELSE body.title,
            Description |-> IF body.description = Absent THEN ""
                            ELSE body.description]]

\* a body without the complete member refused
DecodeCompleteRequired(body) ==
  [err |-> ~body.ok \/ body.complete = Absent,
   dto |-> [Complete |-> body.complete = "true"]]

DecodeCompleteTaskDTO(body) ==
  [err |-> ~body.ok, dto |-> [Complete |-> body.complete = "true"]]

\* the description test left out
ValidateTitleOnly(t) ==
  IF t.Title = "" THEN "task title is required" ELSE ErrNil

ValidateForCreate(t) ==
  IF t.Title = "" THEN "task title is required"
  ELSE IF t.Description = "" THEN "task description is required"
  ELSE ErrNil

\* ---- the requests served ----
JSONBody(title, description, complete) ==
  [ok |-> TRUE, title |-> title, description |-> description, complete |-> complete]

\* create bodies: every title, one description, and each way of leaving a
\* member out or empty
CreateBodies ==
  {Malformed} \cup
  {JSONBody(t, d, Absent) : t \in Titles \cup {"", Absent},
                            d \in {"x", "", Absent}}

CompleteBodies ==
  {Malformed} \cup {JSONBody(Absent, Absent, c) : c \in {"true", "false", Absent}}

Request(method, path, title, query, body) ==
  [method |-> method, path |-> path, title |-> title, query |-> query,
   body |-> body, handler |-> "-"]

Requests ==
  {Request("POST", "/tasks", "", "", b) : b \in CreateBodies}
  \cup {Request(m, "/tasks/{title}", t, "", NoBody) :
          m \in {"GET", "DELETE"}, t \in Titles}
  \cup {Request("GET", "/tasks", "", q, NoBody) : q \in {"", "completed=true"}}
  \cup {Request("PATCH", "/tasks/{title}", t, "", b) :
          t \in Titles, b \in CompleteBodies}

\* ---- responses ----
Response(status, body, task, m, message) ==
  [status |-> status, body |-> body, task |-> task, m |-> m, message |-> message]

\* http.Error(w, errDTO.ToString(), code)
HTTPError(code, message) == Response(code, "error", ZeroTask, EmptyMap, message)

\* the handler answers without calling the store
Reply(w, r) ==
  /\ resp' = [resp EXCEPT ![w] = r]
  /\ pc' = [pc EXCEPT ![w] = "sent"]
  /\ UNCHANGED <<tasks, times, clock, mtx, call, loc, ret, tmp>>

\* the handler calls a List method
CallStore(w, c) ==
  /\ Invoke(w, c)
  /\ resp' = resp

\* the part of a handler up to its call of the store
Dispatch(w, r) ==
  CASE r.handler = "HandleCreateTasks" ->
         LET d == DecodeTaskDTO(r.body)
             v == ValidateForCreate(d.dto)
         IN IF d.err THEN Reply(w, HTTPError(StatusBadRequest, "decode"))
            ELSE IF v # ErrNil THEN Reply(w, HTTPError(StatusBadRequest, v))
            ELSE /\ clock + PendingCompletes <= MaxClock
                 /\ clock' = clock + 1
                 /\ CallStore(w, [op |-> "AddTask", title |-> d.dto.Title,
                                  task |-> NewTask(d.dto.Title, d.dto.Description, clock)])
    [] r.handler = "HandleGetTask" ->
         /\ clock' = clock
         /\ CallStore(w, [op |-> "GetTask", title |-> r.title, task |-> ZeroTask])
    [] r.handler = "HandleGetALLTasks" ->
         /\ clock' = clock
         /\ CallStore(w, [op |-> "ListTasks", title |-> "", task |-> ZeroTask])
    [] r.handler = "HandleGetAllUncompletedTasks" ->
         /\ clock' = clock
         /\ CallStore(w, [op |-> "ListUncompletedTasks", title |-> "", task |-> ZeroTask])
    [] r.handler = "HandleCompleteTask" ->
         LET d == DecodeCompleteTaskDTO(r.body)
         IN IF d.err THEN Reply(w, HTTPError(StatusBadRequest, "decode"))
            ELSE IF d.dto.Complete
              THEN /\ clock + PendingCompletes <= MaxClock
                   /\ clock' = clock
                   /\ CallStore(w, [op |-> "CompleteTask", title |-> r.title,
                                    task |-> ZeroTask])
              ELSE /\ clock' = clock
                   /\ CallStore(w, [op |-> "UncompleteTask", title |-> r.title,
                                    task |-> ZeroTask])
    [] r.handler = "HandleDeleteTask" ->
         /\ clock' = clock
         /\ CallStore(w, [op |-> "DeleteTask", title |-> r.title, task |-> ZeroTask])
    [] OTHER -> Reply(w, HTTPError(StatusNotFound, "404 page not found"))

\* a request arrives, the router picks its handler, the handler starts
Serve(w) ==
  /\ pc[w] = "idle"
  /\ \E r \in Requests :
       LET routed == [r EXCEPT !.handler = Route(r)]
       IN /\ req' = [req EXCEPT ![w] = routed]
          /\ Dispatch(w, routed)

\* the status for a store error: errors.Is(err, expected) or 500
ErrorStatus(err, expected, code) ==
  IF err = expected THEN code ELSE StatusInternalServerError

\* the part of a handler after the store has returned
Answer(w) ==
  LET h == req[w].handler
      err == ret[w].err
  IN CASE h = "HandleCreateTasks" ->
            IF err # ErrNil
              THEN HTTPError(ErrorStatus(err, ErrTaskAlreadyExists, StatusConflict), err)
              ELSE Response(StatusCreated, "task", Show(call[w].task), EmptyMap, "")
       [] h = "HandleGetTask" ->
            IF err # ErrNil
              THEN HTTPError(ErrorStatus(err, ErrTaskNotFound, StatusNotFound), err)
              ELSE Response(StatusOK, "task", Show(ret[w].task), EmptyMap, "")
       [] h \in {"HandleGetALLTasks", "HandleGetAllUncompletedTasks"} ->
            Response(StatusOK, "map", ZeroTask, ShowMap(RetMap(w)), "")
       [] h = "HandleCompleteTask" ->
            IF err # ErrNil
              THEN HTTPError(ErrorStatus(err, ErrTaskNotFound, StatusNotFound), err)
              \* no WriteHeader: w.Write sends 200; changedTask is what the
              \* store call assigned to it
              ELSE Response(StatusOK, "task", Show(ret[w].task), EmptyMap, "")
       [] h = "HandleDeleteTask" ->
            IF err # ErrNil
              THEN HTTPError(ErrorStatus(err, ErrTaskNotFound, StatusNotFound), err)
              \* the handler returns without writing: net/http sends 200
              ELSE Response(StatusOK, "empty", ZeroTask, EmptyMap, "")
       [] OTHER -> HTTPError(StatusInternalServerError, "")

Respond(w) ==
  /\ pc[w] = "done"
  /\ resp' = [resp EXCEPT ![w] = Answer(w)]
  /\ pc' = [pc EXCEPT ![w] = "sent"]
  /\ call' = [call EXCEPT ![w] = NoCall]
  /\ ret' = [ret EXCEPT ![w] = NoRet]
  /\ tmp' = [tmp EXCEPT ![w] = EmptyMap]
  /\ UNCHANGED <<tasks, times, clock, mtx, loc, req>>

\* the response has gone out and the goroutine ends
Close(w) ==
  /\ pc[w] = "sent"
  /\ pc' = [pc EXCEPT ![w] = "idle"]
  /\ req' = [req EXCEPT ![w] = NoReq]
  /\ resp' = [resp EXCEPT ![w] = NoResp]
  /\ UNCHANGED <<tasks, times, clock, mtx, call, loc, ret, tmp>>

\* ListUncompletedTasks(w) is not a disjunct: it is never enabled, because
\* Serve calls the store only through the handler Route picks
NextHTTP ==
  \E w \in Clients :
    \/ Serve(w)
    \/ Lock(w)
    \/ RLock(w)
    \/ Unlock(w)
    \/ RUnlock(w)
    \/ AddTaskCheck(w)
    \/ AddTaskStore(w)
    \/ GetTask(w)
    \/ ListTasks(w)
    \/ CompleteTaskLookup(w)
    \/ CompleteTaskStore(w)
    \/ UncompleteTaskLookup(w)
    \/ UncompleteTaskStore(w)
    \/ DeleteTaskLookup(w)
    \/ DeleteTaskStore(w)
    \/ Respond(w)
    \/ Close(w)

SpecHTTP == Init /\ [][NextHTTP]_vars

TypeOK ==
  /\ DOMAIN tasks \subseteq Titles
  /\ clock \in 1..(MaxClock + 1)
  /\ Len(times) < clock
  /\ mtx.readers \in 0..NumWorkers

\* ---- claims ----
IsAdd(w) == call[w].op = "AddTask"

\* the goroutines whose AddTask(T) has returned, and those it returned nil to
Returned(T) == {w \in Workers : IsAdd(w) /\ call[w].title = T /\ pc[w] = "done"}

Winners(T) == {w \in Returned(T) : ret[w].err = ErrNil}

\* C1: of the concurrent AddTask calls for one absent title, exactly one
\* returns nil and every other returns ErrTaskAlreadyExists; the store then
\* holds for that title the task the successful call passed.
C1_OneAddWins ==
  \A T \in Titles :
    Returned(T) # {} =>
      /\ Cardinality(Winners(T)) = 1
      /\ \A w \in Returned(T) \ Winners(T) : ret[w].err = ErrTaskAlreadyExists
      /\ T \in DOMAIN tasks
      /\ \A w \in Winners(T) : tasks[T] = call[w].task

C1_Witness ==
  \E T \in Titles :
    /\ Cardinality(Returned(T)) >= 2
    /\ \E w \in Returned(T) : ret[w].err = ErrTaskAlreadyExists

\* the title of w's AddTask is used by no other goroutine's AddTask
AloneOnTitle(w) ==
  \A v \in Workers \ {w} : IsAdd(v) => call[v].title # call[w].title

\* C2: a returned AddTask whose title no other concurrent AddTask uses has
\* returned nil, and GetTask finds the task it passed.
C2_DistinctAddsSucceed ==
  \A w \in Workers :
    (IsAdd(w) /\ pc[w] = "done" /\ AloneOnTitle(w)) =>
      /\ ret[w].err = ErrNil
      /\ GetTaskBody(tasks, call[w].title) = [task |-> call[w].task, err |-> ErrNil]

C2_Witness ==
  \E w, v \in Workers :
    /\ w # v
    /\ IsAdd(w) /\ pc[w] = "done" /\ AloneOnTitle(w)
    /\ IsAdd(v) /\ pc[v] = "done" /\ AloneOnTitle(v)

\* w leaves the statement it is at
Moves(w) == pc'[w] # pc[w]

\* C3: AddTask of a NewTask whose title is absent returns nil, and GetTask on
\* the store it leaves returns that title and description, Completed false,
\* CompletedAt nil and CreatedAt set.
C3_AddThenGet ==
  [][\A w \in Workers :
       (IsAdd(w) /\ Moves(w) /\ call[w].title \notin DOMAIN tasks) =>
         /\ pc[w] = "cs" => pc'[w] = "write" /\ tasks' = tasks
         /\ pc[w] = "write" =>
              LET g == GetTaskBody(tasks', call[w].title)
              IN /\ ret'[w].err = ErrNil
                 /\ g.err = ErrNil
                 /\ g.task.Title = call[w].title
                 /\ g.task.Title = call[w].task.Title
                 /\ g.task.Description = call[w].task.Description
                 /\ g.task.Description \in Descriptions
                 /\ g.task.Completed = FALSE
                 /\ g.task.CompletedAt = Nil
                 /\ g.task.CreatedAt # ZeroTime]_vars

C3_Witness ==
  \E w \in Workers :
    /\ IsAdd(w) /\ pc[w] = "unlock" /\ ret[w].err = ErrNil
    /\ tasks[call[w].title] = call[w].task

\* C4: AddTask of a title that is in the store returns ErrTaskAlreadyExists,
\* and no step of that call changes the store or the timestamps it points to.
C4_AddExistingFails ==
  [][\A w \in Workers :
       (IsAdd(w) /\ Moves(w)) =>
         /\ (pc[w] = "cs" /\ call[w].title \in DOMAIN tasks) =>
              /\ pc'[w] = "unlock"
              /\ ret'[w].err = ErrTaskAlreadyExists
              /\ tasks' = tasks
              /\ times' = times
         /\ (pc[w] = "unlock" /\ ret[w].err = ErrTaskAlreadyExists) =>
              /\ pc'[w] = "done"
              /\ ret'[w] = ret[w]
              /\ tasks' = tasks
              /\ times' = times]_vars

C4_Witness ==
  \E w \in Workers :
    /\ IsAdd(w) /\ pc[w] = "done" /\ ret[w].err = ErrTaskAlreadyExists
    /\ call[w].title \in DOMAIN tasks
    /\ tasks[call[w].title].Description # call[w].task.Description

\* C5: GetTask, CompleteTask, UncompleteTask and DeleteTask of an absent title
\* return ErrTaskNotFound and leave the store as it was.
C5_AbsentNotFound ==
  [][\A w \in Workers :
       (call[w].op \in {"GetTask", "CompleteTask", "UncompleteTask", "DeleteTask"}
          /\ Moves(w) /\ pc[w] = "cs" /\ call[w].title \notin DOMAIN tasks) =>
         /\ pc'[w] = "unlock"
         /\ ret'[w].err = ErrTaskNotFound
         /\ ret'[w].task = ZeroTask
         /\ tasks' = tasks
         /\ times' = times]_vars

C5_Witness ==
  \E w, v \in Workers :
    /\ pc[w] = "done" /\ call[w].op = "GetTask" /\ ret[w].err = ErrTaskNotFound
    /\ pc[v] = "unlock" /\ call[v].op \in {"CompleteTask", "UncompleteTask", "DeleteTask"}
    /\ ret[v].err = ErrTaskNotFound
    /\ tasks # EmptyMap

\* C6: every stored task has CompletedAt set exactly when Completed is true.
C6_CompletedAtIffCompleted ==
  \A t \in DOMAIN tasks :
    /\ tasks[t].Completed <=> tasks[t].CompletedAt # Nil
    /\ tasks[t].CompletedAt # Nil => tasks[t].CompletedAt \in 1..Len(times)

\* a completed and an uncompleted task, after an UncompleteTask has succeeded
C6_Witness ==
  \E t, u \in DOMAIN tasks :
    /\ tasks[t].Completed
    /\ ~tasks[u].Completed
    /\ \E w \in Workers :
         pc[w] = "done" /\ call[w].op = "UncompleteTask" /\ ret[w].err = ErrNil

\* C7: on the store CompleteTask(T) leaves, GetTask(T) shows Completed true
\* and CompletedAt set; on the store UncompleteTask(T) leaves, it shows
\* Completed false and CompletedAt nil; whatever the task was before.
C7_RoundTrip ==
  [][\A w \in Workers :
       (pc[w] = "write" /\ Moves(w)) =>
         LET g == GetTaskBody(tasks', call[w].title)
         IN /\ call[w].op = "CompleteTask" =>
                 /\ ret'[w].err = ErrNil
                 /\ g.err = ErrNil
                 /\ g.task.Completed = TRUE
                 /\ g.task.CompletedAt # Nil
                 /\ ShowIn(times', g.task).CompletedAt = clock
            /\ call[w].op = "UncompleteTask" =>
                 /\ ret'[w].err = ErrNil
                 /\ g.err = ErrNil
                 /\ g.task.Completed = FALSE
                 /\ g.task.CompletedAt = Nil]_vars

C7_Witness ==
  \E w, v \in Workers :
    /\ pc[w] = "unlock" /\ call[w].op = "UncompleteTask" /\ ret[w].err = ErrNil
    /\ pc[v] = "done" /\ call[v].op = "CompleteTask" /\ ret[v].err = ErrNil
    /\ call[v].title = call[w].title
    /\ Len(times) >= 2

\* C8: ListUncompletedTasks returns exactly the entries of ListTasks whose
\* Completed is false, each with the same record.
C8_IncompleteIsSubset ==
  LET all == ListTasksBody(tasks).val
      inc == ListUncompletedTasksBody(tasks).val
  IN /\ DOMAIN inc = {t \in DOMAIN all : ~all[t].Completed}
     /\ \A t \in DOMAIN inc : inc[t] = all[t]
     /\ \A w \in Workers :
          (pc[w] = "unlock" /\ call[w].op = "ListUncompletedTasks") =>
            RetMap(w) = inc

C8_Witness ==
  /\ \E t, u \in DOMAIN tasks : tasks[t].Completed /\ ~tasks[u].Completed
  /\ \E w \in Workers : pc[w] = "unlock" /\ call[w].op = "ListUncompletedTasks"

IsList(w) == call[w].op \in {"ListTasks", "ListUncompletedTasks"}

\* C9: the map ListTasks or ListUncompletedTasks returns is the store content
\* (its uncompleted part) at the instant of the copy, and nothing the store
\* does afterwards changes what the caller sees in it.
C9_Snapshot ==
  [][\A w \in Workers :
       /\ (pc[w] = "cs" /\ Moves(w) /\ call[w].op = "ListTasks") =>
            ShowMap(RetMap(w))' = ShowMap(tasks)
       /\ (pc[w] = "cs" /\ Moves(w) /\ call[w].op = "ListUncompletedTasks") =>
            ShowMap(RetMap(w))' =
              ShowMap([t \in {u \in DOMAIN tasks : ~tasks[u].Completed} |-> tasks[t]])
       /\ (IsList(w) /\ pc[w] \in {"unlock", "done"} /\ pc'[w] \in {"unlock", "done"}) =>
            ShowMap(RetMap(w))' = ShowMap(RetMap(w))]_vars

\* a caller still holds a snapshot that the store has since moved away from
C9_Witness ==
  \E w \in Workers :
    /\ IsList(w) /\ pc[w] = "done"
    /\ \E t \in DOMAIN RetMap(w) :
         \/ t \notin DOMAIN tasks
         \/ Show(tasks[t]) # Show(RetMap(w)[t])

\* C10: nothing a caller does to a task or map it got from GetTask, ListTasks
\* or ListUncompletedTasks changes a record the store returns later.
C10_CallerCannotMutateStore ==
  [][CallerMutates => ShowMap(tasks)' = ShowMap(tasks)]_vars

\* ---- claims on the HTTP surface ----
Sent(w) == pc[w] = "sent"

IsListRequest(w, query) ==
  /\ req[w].method = "GET"
  /\ req[w].path = "/tasks"
  /\ req[w].query = query

\* C11: GET /tasks?completed=true is answered 200 with the uncompleted tasks
\* only, no completed task is in the response; GET /tasks answers with all.
C11_FilteredList ==
  \A w \in Workers :
    /\ (Sent(w) /\ IsListRequest(w, "completed=true")) =>
         /\ resp[w].status = StatusOK
         /\ resp[w].body = "map"
         /\ \A t \in DOMAIN resp[w].m : ~resp[w].m[t].Completed
    /\ (Sent(w) /\ IsListRequest(w, "")) =>
         /\ resp[w].status = StatusOK
         /\ resp[w].body = "map"

IsDelete(w) == req[w].method = "DELETE" /\ req[w].path = "/tasks/{title}"

\* C12: DELETE /tasks/{title} answers 204 with an empty body when the store
\* removed the task, and 404 when the title was absent.
C12_DeleteNoContent ==
  \A w \in Workers :
    (Sent(w) /\ IsDelete(w)) =>
      \/ resp[w].status = StatusNotFound /\ resp[w].message = ErrTaskNotFound
      \/ resp[w].status = StatusNoContent /\ resp[w].body = "empty"

IsPatch(w) == req[w].method = "PATCH" /\ req[w].path = "/tasks/{title}"

\* C13: CompleteTask and UncompleteTask of an existing title return the task
\* as stored at the end of their critical section, and PATCH /tasks/{title}
\* answers 200 with that task.
C13_ReturnsUpdatedTask ==
  \A w \in Workers :
    /\ (pc[w] = "unlock" /\ call[w].op \in {"CompleteTask", "UncompleteTask"}
          /\ ret[w].err = ErrNil) =>
         /\ call[w].title \in DOMAIN tasks
         /\ ret[w].task = tasks[call[w].title]
    /\ (Sent(w) /\ IsPatch(w) /\ resp[w].status = StatusOK) =>
         /\ resp[w].body = "task"
         /\ resp[w].task.Title = req[w].title
         /\ resp[w].task.Completed = (req[w].body.complete = "true")
         /\ resp[w].task.Completed <=> resp[w].task.CompletedAt # -1

IsCreate(r) == r.method = "POST" /\ r.path = "/tasks"

\* the body is not JSON, or title or description is missing or empty
BadCreate(b) ==
  \/ ~b.ok
  \/ b.title \in {"", Absent}
  \/ b.description \in {"", Absent}

StoredTasksValid ==
  \A t \in DOMAIN tasks :
    /\ t # ""
    /\ tasks[t].Title = t
    /\ tasks[t].Description # ""

\* C14: a create request with a malformed body or a missing or empty title
\* or description is answered 400 without the store being called or changed,
\* so every stored task has a non-empty title and description.
C14_CreateValidated ==
  [][/\ \A w \in Workers :
          (pc[w] = "idle" /\ Moves(w) /\ IsCreate(req'[w]) /\ BadCreate(req'[w].body)) =>
            /\ pc'[w] = "sent"
            /\ resp'[w].status = StatusBadRequest
            /\ resp'[w].body = "error"
            /\ call'[w] = NoCall
            /\ tasks' = tasks
            /\ times' = times
            /\ mtx' = mtx
     /\ StoredTasksValid']_vars

C14_Witness ==
  \E w \in Workers :
    /\ Sent(w) /\ IsCreate(req[w]) /\ req[w].body.ok
    /\ req[w].body.title \in Titles /\ req[w].body.description = ""
    /\ resp[w].status = StatusBadRequest
    /\ tasks # EmptyMap

\* ---- claims on ordering and locking ----
Uncompleted(m) == [t \in {u \in DOMAIN m : ~m[u].Completed} |-> m[t]]

\* the store shows the write of w, whose critical section has just ended
WriteVisible(w) ==
  LET T == call[w].title
  IN CASE call[w].op = "AddTask" -> T \in DOMAIN tasks /\ tasks[T] = call[w].task
       [] call[w].op = "CompleteTask" ->
            /\ T \in DOMAIN tasks
            /\ tasks[T].Completed
            /\ tasks[T].CompletedAt = Len(times)
       [] call[w].op = "UncompleteTask" ->
            T \in DOMAIN tasks /\ ~tasks[T].Completed /\ tasks[T].CompletedAt = Nil
       [] call[w].op = "DeleteTask" -> T \notin DOMAIN tasks
       [] OTHER -> TRUE

\* what w has read is what the store holds
ReadCurrent(w) ==
  CASE call[w].op = "GetTask" ->
         [task |-> ret[w].task, err |-> ret[w].err] = GetTaskBody(tasks, call[w].title)
    [] call[w].op = "ListTasks" -> RetMap(w) = tasks
    [] call[w].op = "ListUncompletedTasks" -> RetMap(w) = Uncompleted(tasks)
    [] OTHER -> TRUE

\* C15: the store changes only in the critical section of a successful
\* write, one at a time; at the end of that section it shows the write, and
\* what a read returns is the store as it stands while the read holds its
\* lock - so a read that starts after a write sees it or a later one.
C15_ReadsSeeWrites ==
  [][/\ tasks' # tasks =>
          \E w \in Workers :
            /\ call[w].op \in WriteOps /\ pc[w] = "write" /\ pc'[w] = "unlock"
            /\ mtx.writer
            /\ ret'[w].err = ErrNil
            /\ \A v \in Workers \ {w} : pc[v] \notin {"cs", "write", "unlock"}
     /\ \A w \in Workers :
          (pc'[w] = "unlock" /\ ret'[w].err = ErrNil) =>
            /\ call'[w].op \in WriteOps => WriteVisible(w)'
            /\ call'[w].op \in ReadOps => ReadCurrent(w)']_vars

C15_Witness ==
  \E w, v \in Workers :
    /\ pc[v] = "done" /\ call[v].op = "CompleteTask" /\ ret[v].err = ErrNil
    /\ pc[w] = "unlock" /\ call[w].op = "GetTask" /\ call[w].title = call[v].title
    /\ ret[w].err = ErrNil /\ ret[w].task.Completed

\* between acquiring the lock and the deferred release
InCS(w) == pc[w] \in {"cs", "write", "unlock"}

WritersInside == {w \in Workers : InCS(w) /\ call[w].op \in WriteOps}

ReadersInside == {w \in Workers : InCS(w) /\ call[w].op \in ReadOps}

\* C16: while a mutation is inside its critical section no other operation
\* is inside its own; readers may be inside together.
C16_WriterExcludesAll ==
  /\ WritersInside # {} =>
       /\ Cardinality(WritersInside) = 1
       /\ ReadersInside = {}
  /\ mtx.writer <=> WritersInside # {}
  /\ mtx.readers = Cardinality(ReadersInside)

\* two readers inside together
C16_Witness ==
  /\ Cardinality(ReadersInside) >= 2
  /\ \E w \in ReadersInside : pc[w] = "unlock"

\* ---- the store under a fair scheduler and a fair lock ----
\* a goroutine that can run does run; a goroutine waiting in Lock or RLock
\* gets the lock if it is free again and again
Fairness ==
  \A w \in Clients :
    /\ SF_vars(Lock(w))
    /\ SF_vars(RLock(w))
    /\ WF_vars(\/ AddTaskCheck(w) \/ AddTaskStore(w) \/ GetTask(w)
               \/ ListTasks(w) \/ ListUncompletedTasks(w)
               \/ CompleteTaskLookup(w) \/ CompleteTaskStore(w)
               \/ UncompleteTaskLookup(w) \/ UncompleteTaskStore(w)
               \/ DeleteTaskLookup(w) \/ DeleteTaskStore(w)
               \/ Unlock(w) \/ RUnlock(w))

\* the lock covers the whole map, whatever the title: the calls of every
\* method, on one title
CallOnOneTitle(w) ==
  /\ \E op \in WriteOps \cup ReadOps :
       /\ op \in {"AddTask", "CompleteTask"} => clock + PendingCompletes <= MaxClock
       /\ clock' = IF op = "AddTask" THEN clock + 1 ELSE clock
       /\ Invoke(w, [op |-> op,
                     title |-> IF op \in {"ListTasks", "ListUncompletedTasks"}
                               THEN "" ELSE "a",
                     task |-> IF op = "AddTask" THEN NewTask("a", "x", clock)
                              ELSE ZeroTask])
  /\ UNCHANGED http

NextFair ==
  \E w \in Clients :
    \/ CallOnOneTitle(w)
    \/ Lock(w)
    \/ RLock(w)
    \/ Unlock(w)
    \/ RUnlock(w)
    \/ AddTaskCheck(w)
    \/ AddTaskStore(w)
    \/ GetTask(w)
    \/ ListTasks(w)
    \/ ListUncompletedTasks(w)
    \/ CompleteTaskLookup(w)
    \/ CompleteTaskStore(w)
    \/ UncompleteTaskLookup(w)
    \/ UncompleteTaskStore(w)
    \/ DeleteTaskLookup(w)
    \/ DeleteTaskStore(w)
    \/ Return(w)

SpecFair == Init /\ [][NextFair]_vars /\ Fairness

\* the lock is held exactly by the goroutines inside a method
LockHeldOnlyInside ==
  /\ mtx.writer <=> WritersInside # {}
  /\ mtx.readers = Cardinality(ReadersInside)
  /\ (\A w \in Workers : pc[w] \in {"idle", "done", "sent"}) =>
       mtx = [writer |-> FALSE, readers |-> 0]

\* C17: a method holds its lock only between acquiring it and returning, on
\* the error paths too, and every call that was made returns.
C17_LockReleasedAndCallsReturn ==
  /\ []LockHeldOnlyInside
  /\ \A w \in Clients : (pc[w] = "lock") ~> (pc[w] = "done")

\* a call has returned an error and the lock is free again
C17_Witness ==
  /\ \E w \in Workers :
       pc[w] = "done" /\ call[w].op \in WriteOps /\ ret[w].err # ErrNil
  /\ \A w \in Workers : pc[w] \in {"idle", "done"}
  /\ mtx = [writer |-> FALSE, readers |-> 0]

\* ---- C18, C19: what CompleteTask and UncompleteTask change ----
\* the step in which goroutine w stores the task it has completed or
\* uncompleted
Toggles(w) ==
  /\ pc[w] = "write"
  /\ pc'[w] = "unlock"
  /\ call[w].op \in {"CompleteTask", "UncompleteTask"}

KeepsIdentity(old, new) ==
  /\ new.Title = old.Title
  /\ new.Description = old.Description
  /\ new.CreatedAt = old.CreatedAt

\* C18: a successful CompleteTask(T) or UncompleteTask(T) changes only
\* Completed and CompletedAt of T: the titles in the store, every other
\* record as the client sees it, and the Title, Description and CreatedAt of T
\* stay; while a title stays in the store its CreatedAt never changes.
C18_ToggleFrame ==
  [][/\ \A t \in DOMAIN tasks \cap DOMAIN tasks' :
          KeepsIdentity(tasks[t], tasks'[t])
     /\ \A w \in Workers :
          Toggles(w) =>
            /\ ret'[w].err = ErrNil
            /\ DOMAIN tasks' = DOMAIN tasks
            /\ call[w].title \in DOMAIN tasks
            /\ KeepsIdentity(tasks[call[w].title], tasks'[call[w].title])
            /\ \A t \in DOMAIN tasks \ {call[w].title} :
                 /\ tasks'[t] = tasks[t]
                 /\ ShowIn(times', tasks'[t]) = ShowIn(times, tasks[t])]_vars

\* a task has been completed while another task is stored: the other one is
\* uncompleted still, the completed one has its description
C18_Witness ==
  \E w \in Workers :
    /\ pc[w] = "unlock"
    /\ call[w].op = "CompleteTask"
    /\ ret[w].err = ErrNil
    /\ \E t \in DOMAIN tasks \ {call[w].title} :
         /\ ~tasks[t].Completed
         /\ tasks[call[w].title].Completed
         /\ tasks[call[w].title].Description # ""
         /\ tasks[call[w].title].CreatedAt < Show(tasks[call[w].title]).CompletedAt

\* C19: CompleteTask(T) on a task that is completed already succeeds, leaves
\* Completed true and shows as CompletedAt the time of this call, later than
\* the one shown before; Title, Description and CreatedAt stay.
C19_CompleteAgainRefreshes ==
  [][\A w \in Workers :
       (Toggles(w) /\ call[w].op = "CompleteTask" /\ loc[w].Completed) =>
         /\ tasks[call[w].title] = loc[w]
         /\ ret'[w].err = ErrNil
         /\ tasks'[call[w].title].Completed
         /\ ShowIn(times', tasks'[call[w].title]).CompletedAt = clock
         /\ ShowIn(times', tasks'[call[w].title]).CompletedAt
              > Show(tasks[call[w].title]).CompletedAt
         /\ KeepsIdentity(tasks[call[w].title], tasks'[call[w].title])]_vars

\* the only task of the store has been completed a second time: its timestamp
\* is the second one taken, later than the first
C19_Witness ==
  \E w \in Workers :
    /\ pc[w] = "unlock"
    /\ call[w].op = "CompleteTask"
    /\ ret[w].err = ErrNil
    /\ DOMAIN tasks = {call[w].title}
    /\ tasks[call[w].title].CompletedAt = 2
    /\ tasks[call[w].title].CreatedAt < times[1]
    /\ times[1] < times[2]

\* ---- C20: PATCH /tasks/{title} with a body that decodes ----
\* the step in which goroutine w takes a PATCH request whose body decodes
TakesPatch(w) ==
  /\ pc[w] = "idle"
  /\ pc'[w] # "idle"
  /\ req'[w].handler = "HandleCompleteTask"
  /\ req'[w].body.ok

\* C20: a PATCH /tasks/{title} whose body decodes goes to the store without
\* any validation: CompleteTask when the decoded flag is true, UncompleteTask
\* otherwise, the omitted member included; it is never answered 400, and with
\* the member omitted a stored task is left uncompleted with no CompletedAt.
C20_PatchUnvalidated ==
  [][\A w \in Workers :
       /\ TakesPatch(w) =>
            /\ pc'[w] = "lock"
            /\ call'[w].title = req'[w].title
            /\ call'[w].op = IF req'[w].body.complete = "true"
                             THEN "CompleteTask" ELSE "UncompleteTask"
       /\ (pc[w] = "done" /\ pc'[w] = "sent" /\ IsPatch(w) /\ req[w].body.ok) =>
            resp'[w].status \in {StatusOK, StatusNotFound}
       /\ (Toggles(w) /\ IsPatch(w) /\ req[w].body.complete = Absent) =>
            /\ call[w].op = "UncompleteTask"
            /\ ret'[w].err = ErrNil
            /\ ~tasks'[req[w].title].Completed
            /\ ShowIn(times', tasks'[req[w].title]).CompletedAt = -1]_vars

\* one PATCH has completed the task, a second PATCH on the same title, its
\* body without the complete member, was answered 200: the task is stored
\* uncompleted
C20_Witness ==
  \E v, w \in Workers :
    /\ Sent(v) /\ IsPatch(v) /\ req[v].body.complete = "true"
    /\ resp[v].status = StatusOK
    /\ Sent(w) /\ IsPatch(w) /\ req[w].body.complete = Absent
    /\ resp[w].status = StatusOK
    /\ req[w].title = req[v].title
    /\ req[w].title \in DOMAIN tasks
    /\ ~tasks[req[w].title].Completed
    /\ tasks[req[w].title].CompletedAt = Nil
    /\ times # <<>>

====
